---- MODULE Spec2Model ----
(***************************************************************************)
(* A model of ade's template engine: TemplateManager (the register of      *)
(* template fragments, reference resolution, flattening, find_path) and    *)
(* FileSystemManager (build, parse, _to_path, _to_parser).                 *)
(*                                                                         *)
(* Strings are sequences of one-character strings, so that the string      *)
(* operations of the code (replace, split, lower, comparison, format and   *)
(* regular-expression matching) are computed character by character.       *)
(* A python dict is a record; a key the code may leave out ('children' of  *)
(* a file, 'content' of a folder) is left out of the record, and           *)
(* dict.get(key, default) is the operator Get.                             *)
(***************************************************************************)
EXTENDS Integers, Sequences, FiniteSets, TLC

(***************************************************************************)
(* Bounds of the model.                                                    *)
(***************************************************************************)
\* listdir answers in any order: the listings tried are the rotations by
\* 0..MaxRot of a directory's entries, each also reversed.
MaxRot == 1
\* how many explicit re-scans (register_templates calls) a run makes
MaxRescans == 1

(***************************************************************************)
(* Characters and strings.                                                 *)
(***************************************************************************)
Upper == <<"A","B","C","D","E","F","G","H","I","J","K","L","M",
           "N","O","P","Q","R","S","T","U","V","W","X","Y","Z">>
LowerCase == <<"a","b","c","d","e","f","g","h","i","j","k","l","m",
               "n","o","p","q","r","s","t","u","v","w","x","y","z">>
Digits == <<"0","1","2","3","4","5","6","7","8","9">>

\* the characters of the model in ASCII order: Code is order-preserving
AsciiOrder == <<"+", ".", "/">> \o Digits \o <<"@">> \o Upper \o <<"_">>
              \o LowerCase \o <<"{", "}">>

Code(c) == CHOOSE i \in 1..Len(AsciiOrder) : AsciiOrder[i] = c

IsUpper(c) == \E i \in 1..Len(Upper) : Upper[i] = c
IsLower(c) == \E i \in 1..Len(LowerCase) : LowerCase[i] = c
IsDigit(c) == \E i \in 1..Len(Digits) : Digits[i] = c

\* str.lower(), one character
LowerChar(c) == IF IsUpper(c)
                THEN LowerCase[CHOOSE i \in 1..Len(Upper) : Upper[i] = c]
                ELSE c

\* str.lower()
StrLower(s) == [i \in 1..Len(s) |-> LowerChar(s[i])]

\* c in s, for a character c
HasChar(s, c) == \E i \in 1..Len(s) : s[i] = c

\* s.replace(c, '')
RemoveChar(s, c) == SelectSeq(s, LAMBDA x : x # c)

\* the index of the first c in s, Len(s) + 1 when there is none
FirstIndex(s, c) == IF HasChar(s, c)
                    THEN CHOOSE i \in 1..Len(s) :
                           s[i] = c /\ \A j \in 1..(i - 1) : s[j] # c
                    ELSE Len(s) + 1

\* s.split('+')[1], for s holding a '+': what stands between the first '+'
\* and the next one (or the end)
SplitPlus1(s) ==
  LET rest == SubSeq(s, FirstIndex(s, "+") + 1, Len(s))
  IN  SubSeq(rest, 1, FirstIndex(rest, "+") - 1)

\* t in s, for strings: t is a substring of s
IsSubstring(t, s) ==
  \E i \in 1..(Len(s) - Len(t) + 1) : SubSeq(s, i, i + Len(t) - 1) = t

\* a < b for python strings (lexicographic on character codes)
RECURSIVE StrLess(_, _)
StrLess(a, b) ==
  IF a = <<>> THEN b # <<>>
  ELSE IF b = <<>> THEN FALSE
  ELSE IF a[1] = b[1] THEN StrLess(Tail(a), Tail(b))
  ELSE Code(a[1]) < Code(b[1])

\* sep.join(parts)
RECURSIVE Join(_, _)
Join(parts, sep) ==
  IF parts = <<>> THEN <<>>
  ELSE IF Len(parts) = 1 THEN parts[1]
  ELSE parts[1] \o sep \o Join(Tail(parts), sep)

\* os.sep
Sep == <<"/">>

\* d.get(key, default)
Get(d, key, default) == IF key \in DOMAIN d THEN d[key] ELSE default

\* an int and a str are told apart by their tag
IntVal(n) == [int |-> n]
StrVal(s) == [str |-> s]
IsInt(v) == "int" \in DOMAIN v

\* oct(n) of python 2: '0' for 0, else '0' followed by the octal digits
RECURSIVE OctDigits(_)
OctDigits(n) == IF n = 0 THEN <<>>
                ELSE OctDigits(n \div 8) \o <<Digits[(n % 8) + 1]>>
Oct(n) == IF n = 0 THEN <<"0">> ELSE <<"0">> \o OctDigits(n)

\* list.pop(index) leaves this list; list.insert(index, x) makes this one
PopAt(s, i) == SubSeq(s, 1, i - 1) \o SubSeq(s, i + 1, Len(s))
InsertAt(s, i, x) == SubSeq(s, 1, i - 1) \o <<x>> \o SubSeq(s, i, Len(s))

Reverse(s) == [i \in 1..Len(s) |-> s[Len(s) + 1 - i]]

\* sorted(s, key): python's sort is stable, so an element goes after every
\* element whose key is not greater than its own. A key is <<flag, string>>
\* (a python tuple (bool, str), False < True), compared as python compares
\* tuples; keyed holds the pairs <<key, element>>.
KeyLess(k1, k2) == \/ k1[1] < k2[1]
                   \/ k1[1] = k2[1] /\ StrLess(k1[2], k2[2])

RECURSIVE StableInsert(_, _)
StableInsert(sorted, x) ==
  IF sorted = <<>> THEN <<x>>
  ELSE IF KeyLess(x[1], sorted[1][1]) THEN <<x>> \o sorted
  ELSE <<sorted[1]>> \o StableInsert(Tail(sorted), x)

RECURSIVE StableSortFrom(_, _)
StableSortFrom(done, todo) ==
  IF todo = <<>> THEN done
  ELSE StableSortFrom(StableInsert(done, todo[1]), Tail(todo))

StableSort(keyed) ==
  LET out == StableSortFrom(<<>>, keyed)
  IN  [i \in 1..Len(out) |-> out[i][2]]

(***************************************************************************)
(* Names used by the template sources and the inputs below.                *)
(***************************************************************************)
RefInd == "@"
VarInd == "+"

sShow == <<"s","h","o","w">>
sShot == <<"s","h","o","t">>
sSequence == <<"s","e","q","u","e","n","c","e">>
sDepartment == <<"d","e","p","a","r","t","m","e","n","t">>
sV == <<"v">>
sRex == <<"r","e","x">>
sRoot == <<"r","o","o","t">>
sLeaf == <<"l","e","a","f">>
nShowT == <<"@","+","s","h","o","w","+","@">>
nShotT == <<"@","+","s","h","o","t","+","@">>
nDeptT == <<"@","d","e","p","t","@">>
nShowV == <<"+","s","h","o","w","+">>
nXShowV == <<"x","+","s","h","o","w","+">>
nVV == <<"+","v","+">>
nMissing == <<"@","z","z","@">>
nQT == <<"@","q","@">>
nGit == <<".","g","i","t">>

(***************************************************************************)
(* The template source on disk. A directory is [name, mode, dir |-> TRUE,  *)
(* entries], a file [name, mode, dir |-> FALSE, data]. entries is one      *)
(* listing of the directory; listdir may answer any other.                 *)
(***************************************************************************)
Dir(name, entries) == [name |-> name, mode |-> 493, dir |-> TRUE, entries |-> entries]
PrivateDir(name, entries) == [name |-> name, mode |-> 448, dir |-> TRUE, entries |-> entries]
File(name, data) == [name |-> name, mode |-> 420, dir |-> FALSE, data |-> data]

\* a show / shot / department tree: nested references, a placeholder with a
\* local folder, siblings that differ in case only, a control directory
DiskPipeline ==
  Dir(<<"s","r","c">>, <<
    Dir(nShowT, <<
      Dir(nShotT, << Dir(<<"e","x","t","r","a">>, <<>>) >>),
      File(<<"r","e","a","d","m","e">>, <<"h","i">>),
      Dir(<<"F","o","o">>, <<>>),
      PrivateDir(<<"f","o","o">>, <<>>),
      Dir(nGit, << File(<<"H","E","A","D">>, <<"r">>) >>) >>),
    Dir(nShotT, <<
      Dir(<<"a","n","i","m">>, <<>>),
      Dir(nDeptT, <<>>),
      File(<<"n","o","t","e","s">>, <<>>) >>),
    Dir(nDeptT, <<
      Dir(nVV, << Dir(sLeaf, <<>>) >>) >>) >>)

\* literal folders, two paths ending in the same leaf, and siblings that
\* materialize to the same path
DiskRoot ==
  Dir(<<"s","r","c">>, <<
    Dir(sRoot, <<
      Dir(<<"a">>, << Dir(sLeaf, <<>>) >>),
      Dir(<<"b">>, << Dir(sLeaf, <<>>) >>),
      Dir(nShowV, <<>>),
      PrivateDir(sRex, <<>>),
      Dir(nXShowV, <<>>) >>) >>)

\* a variable met twice on one path, a reference to a template that does
\* not exist, template names that differ in case only, a variable marker
\* with no name after it, a top-level file
DiskEdge ==
  Dir(<<"s","r","c">>, <<
    Dir(nShowT, <<
      Dir(nShowV, << File(<<"f">>, <<"x">>) >>),
      PrivateDir(sShow, <<>>) >>),
    Dir(<<"T">>, << Dir(nMissing, <<>>) >>),
    PrivateDir(<<"t">>, << Dir(<<"y","+">>, <<>>) >>),
    File(<<"t","o","p">>, <<"x">>) >>)

\* a placeholder that is a file, files and folders mixed, a department
DiskMixed ==
  Dir(<<"s","r","c">>, <<
    Dir(<<"p">>, <<
      File(nQT, <<>>),
      File(<<"a">>, <<"1">>),
      Dir(<<"b">>, <<>>),
      Dir(<<"+","d","e","p","a","r","t","m","e","n","t","+">>, <<>>) >>),
    Dir(nQT, <<
      File(<<"m">>, <<"2">>),
      Dir(<<"k">>, <<>>) >>) >>)

Disks == {DiskPipeline, DiskRoot, DiskEdge, DiskMixed}

\* the orders listdir may answer in
Orders == [rot : 0..MaxRot, rev : BOOLEAN]

Rotate(s, k) == IF s = <<>> THEN s
                ELSE [i \in 1..Len(s) |-> s[((i - 1 + k) % Len(s)) + 1]]

\* os.listdir(d): the entries of d, in the order ord
ListDir(d, ord) == IF ord.rev THEN Reverse(Rotate(d.entries, ord.rot))
                   ELSE Rotate(d.entries, ord.rot)

(***************************************************************************)
(* TemplateManager: the register.                                          *)
(***************************************************************************)
\* python's None
None == <<"None">>

\* entry.startswith('.git')
StartsWithGit(name) == Len(name) >= Len(nGit) /\ SubSeq(name, 1, Len(nGit)) = nGit

\* oct(stat.S_IMODE(os.stat(path).st_mode)): a str
PermissionOf(e) == StrVal(Oct(e.mode))

\* sorted(entries, key=isfile): folders first, the listing's order otherwise
FoldersFirst(entries) ==
  StableSort([i \in 1..Len(entries) |->
                <<  <<IF entries[i].dir THEN 0 ELSE 1, <<>> >>, entries[i] >>])

\* the entries the loop of _register_templates does not skip
NotGit(entries) == SelectSeq(entries, LAMBDA e : ~StartsWithGit(e.name))

\* _register_templates(root, mapped): what it appends to mapped;
\* RegisterEntries is its loop over the entries
RECURSIVE RegisterChildren(_, _)
RECURSIVE RegisterEntries(_, _)
RegisterEntries(entries, ord) ==
  [i \in 1..Len(entries) |->
     IF entries[i].dir
     THEN [name |-> entries[i].name,
           permission |-> PermissionOf(entries[i]),
           folder |-> TRUE,
           children |-> RegisterChildren(entries[i], ord)]
     ELSE [name |-> entries[i].name,
           permission |-> PermissionOf(entries[i]),
           folder |-> FALSE,
           content |-> entries[i].data]]

RegisterChildren(root, ord) ==
  IF ~root.dir THEN <<>>
  ELSE RegisterEntries(NotGit(FoldersFirst(ListDir(root, ord))), ord)

\* the loop of register_templates: one register entry per template
TemplateMaps(templates, ord) ==
  [i \in 1..Len(templates) |->
     [name |-> templates[i].name,
      children |-> RegisterChildren(templates[i], ord),
      permission |-> PermissionOf(templates[i]),
      folder |-> TRUE]]

\* register_templates(): the register after it, every entry of the template
\* folder appended to what the register held
RegisterTemplatesInto(reg, source, ord) ==
  reg \o TemplateMaps(ListDir(source, ord), ord)

\* sanitize of __init__ and of resolve_template: both markers removed
SortSanitize(var) ==
  IF var = <<>> THEN None
  ELSE RemoveChar(RemoveChar(var, RefInd), VarInd)

\* the sort key of a child: (not folder, sanitize(name).lower())
ChildKey(x) == << IF x.folder THEN 0 ELSE 1, StrLower(SortSanitize(x.name)) >>

\* sorted(children, key): the children in canonical order
SortedChildren(children) ==
  StableSort([i \in 1..Len(children) |-> <<ChildKey(children[i]), children[i]>>])

\* sort_children(reg_item): the item with its children sorted, at every
\* depth; SortEach is its loop over the sorted children
RECURSIVE SortChildren(_)
RECURSIVE SortEach(_)
SortEach(sorted) == [i \in 1..Len(sorted) |-> SortChildren(sorted[i])]

SortChildren(item) ==
  IF Len(Get(item, "children", <<>>)) > 0
  THEN [item EXCEPT !.children = SortEach(SortedChildren(item.children))]
  ELSE item

\* the register sorted by sanitize(name).lower()
SortRegister(reg) ==
  StableSort([i \in 1..Len(reg) |->
                << <<0, StrLower(SortSanitize(reg[i].name))>>, reg[i] >>])

\* TemplateManager(config): the register after __init__
Construct(source, ord) ==
  SortRegister(SortEach(RegisterTemplatesInto(<<>>, source, ord)))

(***************************************************************************)
(* TemplateManager: resolve_template.                                      *)
(***************************************************************************)
\* the index of the first item of the register called name, 0 for none
IndexInRegister(reg, name) ==
  IF \E i \in 1..Len(reg) : reg[i].name = name
  THEN CHOOSE k \in 1..Len(reg) :
         reg[k].name = name /\ \A j \in 1..(k - 1) : reg[j].name # name
  ELSE 0

\* a copy that is no copy: the register's own object is handed out
ShallowCopy(reg, index) == [raised |-> FALSE, item |-> reg[index], alias |-> index]

\* copy.deepcopy(item) of the item at index: alias is the register index of
\* the object handed out when it is the register's own object, 0 for a copy
DeepCopy(reg, index) == [raised |-> FALSE, item |-> reg[index], alias |-> 0]

\* _get_in_register(name): the first item of the register with that name,
\* deep-copied, or KeyError
GetInRegister(reg, name) ==
  IF IndexInRegister(reg, name) # 0
  THEN DeepCopy(reg, IndexInRegister(reg, name))
  ELSE [raised |-> TRUE]

\* an object changed in place: when it is the register's own object, the
\* register holds the change
WriteBack(reg, alias, value) ==
  IF alias = 0 THEN reg ELSE [reg EXCEPT ![alias] = value]

\* the merge the other way round: the local children first
LocalChildrenFirst(fragment, removed) ==
  IF Get(removed, "children", <<>>) # <<>>
  THEN [fragment EXCEPT !.children = removed.children \o @]
  ELSE fragment

\* fragment['children'].extend(removed['children']): the placeholder's
\* local children go after the fragment's own
MergeChildren(fragment, removed) ==
  IF Get(removed, "children", <<>>) # <<>>
  THEN [fragment EXCEPT !.children = @ \o removed.children]
  ELSE fragment

\* schema['children'].insert(index, fragment), after the pop(index)
PutBack(children, index, fragment) == InsertAt(PopAt(children, index), index, fragment)

\* _resolve_template(schema) changes schema in place. ResolveNode gives the
\* schema as the call leaves it, whether KeyError was raised, and the
\* register; ResolveChildrenFrom is the loop from position index on,
\* Substitute the branch of a reference (g is what _get_in_register
\* answered, r what the recursive call left of the fragment), Descend the
\* other branch.
RECURSIVE ResolveNode(_, _)
RECURSIVE ResolveChildrenFrom(_, _, _)
RECURSIVE Substitute(_, _, _, _)
RECURSIVE SubstituteResolved(_, _, _, _)
RECURSIVE Descend(_, _, _)

SubstituteResolved(children, index, alias, r) ==
  IF r.raised
  THEN [reg |-> WriteBack(r.reg, alias, r.node),
        children |-> PutBack(children, index, r.node), raised |-> TRUE]
  ELSE ResolveChildrenFrom(WriteBack(r.reg, alias, r.node),
                           PutBack(children, index, r.node), index + 1)

Substitute(reg, children, index, g) ==
  IF g.raised
  THEN [reg |-> reg, children |-> PopAt(children, index), raised |-> TRUE]
  ELSE SubstituteResolved(children, index, g.alias,
                          ResolveNode(reg, MergeChildren(g.item, children[index])))

Descend(children, index, r) ==
  IF r.raised
  THEN [reg |-> r.reg, children |-> [children EXCEPT ![index] = r.node], raised |-> TRUE]
  ELSE ResolveChildrenFrom(r.reg, [children EXCEPT ![index] = r.node], index + 1)

ResolveChildrenFrom(reg, children, index) ==
  IF index > Len(children)
  THEN [reg |-> reg, children |-> children, raised |-> FALSE]
  ELSE IF HasChar(Get(children[index], "name", <<>>), RefInd)
       THEN Substitute(reg, children, index, GetInRegister(reg, children[index].name))
       ELSE Descend(children, index, ResolveNode(reg, children[index]))

\* the schema with the children the loop left
WithChildren(schema, r) ==
  [reg |-> r.reg, node |-> [schema EXCEPT !.children = r.children], raised |-> r.raised]

ResolveNode(reg, schema) ==
  IF Len(Get(schema, "children", <<>>)) = 0
  THEN [reg |-> reg, node |-> schema, raised |-> FALSE]
  ELSE WithChildren(schema, ResolveChildrenFrom(reg, schema.children, 1))

\* sort_children(root) and return root: the tree returned (built), the tree
\* before the sort (expanded), the register after the call
SortedRoot(reg, alias, root, sorted) ==
  [raised |-> FALSE, reg |-> WriteBack(reg, alias, sorted),
   expanded |-> root, built |-> sorted]

\* resolve_template once self._resolve_template(root) is over
AfterResolve(alias, r) ==
  IF r.raised
  THEN [raised |-> TRUE, reg |-> WriteBack(r.reg, alias, r.node)]
  ELSE SortedRoot(r.reg, alias, r.node, SortChildren(r.node))

\* resolve_template once root is fetched
ResolveRoot(reg, g) ==
  IF g.raised THEN [raised |-> TRUE, reg |-> reg]
  ELSE AfterResolve(g.alias, ResolveNode(reg, g.item))

\* resolve_template(name)
ResolveTemplateCall(reg, name) == ResolveRoot(reg, GetInRegister(reg, name))

(***************************************************************************)
(* TemplateManager: resolve.                                               *)
(***************************************************************************)
\* the name with the marker left in
KeepRef(name) == name

\* name.replace('@', '')
StripRef(name) == RemoveChar(name, RefInd)

\* the path entry of a node reached by path
PathEntry(node, path) ==
  [path |-> path,
   permission |-> Get(node, "permission", IntVal(777)),
   folder |-> Get(node, "folder", TRUE),
   content |-> Get(node, "content", <<>>)]

\* _resolve(schema, final_path_list, path): what it appends; ResolveFrom is
\* its loop from position index on
RECURSIVE ResolveInto(_, _)
RECURSIVE ResolveFrom(_, _, _)
RECURSIVE ChildrenBeforeParent(_, _, _)
\* a walk that visits a node after its descendants
ChildrenBeforeParent(children, index, path) ==
  IF index > Len(children) THEN <<>>
  ELSE ResolveInto(children[index], Append(path, StripRef(children[index].name)))
       \o <<PathEntry(children[index], Append(path, StripRef(children[index].name)))>>
       \o ChildrenBeforeParent(children, index + 1, path)

ResolveFrom(children, index, path) ==
  IF index > Len(children) THEN <<>>
  ELSE <<PathEntry(children[index], Append(path, StripRef(children[index].name)))>>
       \o ResolveInto(children[index], Append(path, StripRef(children[index].name)))
       \o ResolveFrom(children, index + 1, path)

ResolveInto(schema, path) == ResolveFrom(Get(schema, "children", <<>>), 1, path)

\* resolve(schema)
Resolve(schema) ==
  <<PathEntry(schema, <<StripRef(schema.name)>>)>>
  \o ResolveInto(schema, <<StripRef(schema.name)>>)

(***************************************************************************)
(* TemplateManager: find_path.                                             *)
(***************************************************************************)
\* var[1:-1]
DropEnds(v) == SubSeq(v, 2, Len(v) - 1)

\* sanitize of find_path: the variable marker removed, then the first and
\* last characters dropped when a '{' is left
FindSanitize(var) ==
  IF var = None \/ var = <<>> THEN None
  ELSE IF HasChar(RemoveChar(var, VarInd), "{")
       THEN DropEnds(RemoveChar(var, VarInd))
       ELSE RemoveChar(var, VarInd)

\* sanitize(x) or None
OrNone(v) == IF v = <<>> THEN None ELSE v

\* map(sanitize, contains or [])
SanitizeAll(contains) == [k \in 1..Len(contains) |-> FindSanitize(contains[k])]

\* all(outs) for one path: every token is in some element of the path
ContainsAll(contains, path) ==
  \A k \in 1..Len(contains) :
    \E j \in 1..Len(path) : IsSubstring(contains[k], path[j])

\* whether the loop body accepts path
PathMatches(path, startwith, contains, endswith) ==
  /\ IF startwith # None THEN startwith = FindSanitize(path[1]) ELSE TRUE
  /\ IF endswith # None THEN endswith = FindSanitize(path[Len(path)]) ELSE TRUE
  /\ ContainsAll(contains, path)

\* what find_path returns: a path, or None when the loop ends
NoPath == [none |-> TRUE]
ThePath(path) == [path |-> path]

\* a loop that does not stop at the first accepted path: the last one wins
RECURSIVE LastMatch(_, _, _, _, _)
LaterOr(later, path, accepted) ==
  IF "path" \in DOMAIN later THEN later
  ELSE IF accepted THEN ThePath(path) ELSE NoPath

LastMatch(pathlist, index, startwith, contains, endswith) ==
  IF index > Len(pathlist) THEN NoPath
  ELSE LaterOr(LastMatch(pathlist, index + 1, startwith, contains, endswith),
               pathlist[index],
               PathMatches(pathlist[index], startwith, contains, endswith))

\* the for ... else loop over paths: the first accepted path, or None
RECURSIVE FirstMatch(_, _, _, _, _)
FirstMatch(pathlist, index, startwith, contains, endswith) ==
  IF index > Len(pathlist) THEN NoPath
  ELSE IF PathMatches(pathlist[index], startwith, contains, endswith)
       THEN ThePath(pathlist[index])
       ELSE FirstMatch(pathlist, index + 1, startwith, contains, endswith)

\* [item['path'] for item in resolved]
PathsOf(entries) == [i \in 1..Len(entries) |-> entries[i].path]

\* find_path from the filters on: a token that sanitize turned into None
\* cannot be looked for in a string
FindAmong(reg, pathlist, startwith, contains, endswith) ==
  IF pathlist # <<>> /\ \E k \in 1..Len(contains) : contains[k] = None
  THEN [raised |-> "TypeError", reg |-> reg]
  ELSE [raised |-> "none", reg |-> reg,
        found |-> FirstMatch(pathlist, 1, startwith, contains, endswith)]

\* find_path once the template is resolved
FindResolved(r, startwith, contains, endswith) ==
  IF r.raised
  THEN [raised |-> "KeyError", reg |-> r.reg]
  ELSE FindAmong(r.reg, PathsOf(Resolve(r.built)), OrNone(FindSanitize(startwith)),
                 SanitizeAll(contains), OrNone(FindSanitize(endswith)))

\* find_path(startwith, contains, endswith, template_name)
FindPathCall(reg, startwith, contains, endswith, template_name) ==
  FindResolved(ResolveTemplateCall(reg, template_name), startwith, contains, endswith)

(***************************************************************************)
(* FileSystemManager: _to_path.                                            *)
(***************************************************************************)
\* a format field name made of digits is a positional argument
AllDigits(key) == \A i \in 1..Len(key) : IsDigit(key[i])

\* final_path.format(**data): each {key} replaced by data[key]; an empty or
\* numeric key has no positional argument to take (IndexError), a key that
\* data lacks is a KeyError. Prefixed puts what was formatted so far in
\* front, FormatField is the step at a '{' that closes at close.
RECURSIVE Format(_, _)
Prefixed(prefix, rest) ==
  IF rest.raised THEN rest ELSE [raised |-> FALSE, str |-> prefix \o rest.str]

FormatField(str, data, close, key) ==
  IF close > Len(str) \/ key = <<>> \/ AllDigits(key) \/ key \notin DOMAIN data
  THEN [raised |-> TRUE]
  ELSE Prefixed(data[key], Format(SubSeq(str, close + 1, Len(str)), data))

Format(str, data) ==
  IF str = <<>> THEN [raised |-> FALSE, str |-> <<>>]
  ELSE IF str[1] = "{"
       THEN FormatField(str, data, FirstIndex(str, "}"),
                        SubSeq(str, 2, FirstIndex(str, "}") - 1))
       ELSE Prefixed(<<str[1]>>, Format(Tail(str), data))

\* '{%s}' % item.split('+')[1] for an item holding the variable marker
Placeholder(item) ==
  IF HasChar(item, VarInd) THEN <<"{">> \o SplitPlus1(item) \o <<"}">> ELSE item

\* the inner loop of _to_path: result_path of an entry
ResultPath(entry) == [i \in 1..Len(entry.path) |-> Placeholder(entry.path[i])]

\* list == dict in python: values of different types are never equal
ListEqualsDict(list, dict) == FALSE

\* result_path not in result_paths: result_path is a list of segments and
\* result_paths holds the entries (dicts) kept so far
NotIn(result_path, result_paths) ==
  \A i \in 1..Len(result_paths) : ~ListEqualsDict(result_path, result_paths[i])

\* entry['path'] = final_path
WithPath(entry, final_path) == [entry EXCEPT !.path = final_path]

\* _to_path(paths, data): the list returned (result), and the list passed
\* in as the call leaves it (entries: a kept entry has its path replaced).
\* ToPathFrom is the loop from position index on, KeepOrSkip the try block.
RECURSIVE ToPathFrom(_, _, _, _)
RECURSIVE KeepOrSkip(_, _, _, _, _)
\* a try block around the whole loop: the first failure ends it
StopAtFailure(entries, index, data, result_paths, final_path) ==
  IF final_path.raised
  THEN [result |-> result_paths, entries |-> entries]
  ELSE ToPathFrom([entries EXCEPT ![index] = WithPath(entries[index], final_path.str)],
                  index + 1, data,
                  Append(result_paths, WithPath(entries[index], final_path.str)))

KeepOrSkip(entries, index, data, result_paths, final_path) ==
  IF final_path.raised
  THEN ToPathFrom(entries, index + 1, data, result_paths)
  ELSE ToPathFrom([entries EXCEPT ![index] = WithPath(entries[index], final_path.str)],
                  index + 1, data,
                  Append(result_paths, WithPath(entries[index], final_path.str)))

ToPathFrom(entries, index, data, result_paths) ==
  IF index > Len(entries) THEN [result |-> result_paths, entries |-> entries]
  ELSE IF NotIn(ResultPath(entries[index]), result_paths)
       THEN KeepOrSkip(entries, index, data, result_paths,
                       Format(Join(ResultPath(entries[index]), Sep), data))
       ELSE ToPathFrom(entries, index + 1, data, result_paths)

ToPath(entries, data) == ToPathFrom(entries, 1, data, <<>>)

(***************************************************************************)
(* FileSystemManager: _to_parser and parse.                                *)
(***************************************************************************)
\* the character classes of the patterns: [a-z_] and [a-zA-Z0-9_]
InClass(c, class) ==
  IF class = "lower" THEN IsLower(c) \/ c = "_"
  ELSE IsLower(c) \/ IsUpper(c) \/ IsDigit(c) \/ c = "_"

\* regexp_config.get(entry, default).format(entry): a named group
GroupOf(entry) ==
  IF entry \in {sShow, sSequence, sShot}
  THEN [group |-> entry, class |-> "alnum"]
  ELSE IF entry = sDepartment
  THEN [group |-> sDepartment, class |-> "lower"]
  ELSE [group |-> entry, class |-> "alnum"]

\* a pattern is a sequence of tokens: a literal character or a named group
Literal(str) == [i \in 1..Len(str) |-> [lit |-> str[i]]]

SegmentPattern(entry) ==
  IF HasChar(entry, VarInd) THEN <<GroupOf(SplitPlus1(entry))>> ELSE Literal(entry)

\* _to_parser(paths): one pattern per entry
ToParser(entries) ==
  [i \in 1..Len(entries) |->
     Join([j \in 1..Len(entries[i].path) |-> SegmentPattern(entries[i].path[j])],
          Literal(Sep))]

\* a group name must be an identifier and name one group only
IsIdentifier(name) ==
  /\ name # <<>>
  /\ ~IsDigit(name[1])
  /\ \A i \in 1..Len(name) : InClass(name[i], "alnum")

IsGroup(tok) == "group" \in DOMAIN tok

\* re.compile(parser) succeeds
Compiles(pattern) ==
  /\ \A i \in 1..Len(pattern) : IsGroup(pattern[i]) => IsIdentifier(pattern[i].group)
  /\ \A i, j \in 1..Len(pattern) :
       (i < j /\ IsGroup(pattern[i]) /\ IsGroup(pattern[j]))
         => pattern[i].group # pattern[j].group

\* the length of the longest run of characters of class in str from pos
RECURSIVE RunLength(_, _, _)
RunLength(str, pos, class) ==
  IF pos > Len(str) \/ ~InClass(str[pos], class) THEN 0
  ELSE 1 + RunLength(str, pos + 1, class)

\* check.match(path): the pattern matched from the start of path (the end
\* is free). A group is greedy, and what follows a group is the separator
\* or the end of the pattern, so the longest run (of n characters) is the
\* one match.
RECURSIVE MatchFrom(_, _, _, _, _)
RECURSIVE MatchGroup(_, _, _, _, _, _)
MatchGroup(pattern, i, str, pos, groups, n) ==
  IF n = 0 THEN [matched |-> FALSE]
  ELSE MatchFrom(pattern, i + 1, str, pos + n,
                 (pattern[i].group :> SubSeq(str, pos, pos + n - 1)) @@ groups)

MatchFrom(pattern, i, str, pos, groups) ==
  IF i > Len(pattern) THEN [matched |-> TRUE, groupdict |-> groups]
  ELSE IF IsGroup(pattern[i])
  THEN MatchGroup(pattern, i, str, pos, groups, RunLength(str, pos, pattern[i].class))
  ELSE IF pos <= Len(str) /\ (pattern[i].lit = "." \/ pattern[i].lit = str[pos])
  THEN MatchFrom(pattern, i + 1, str, pos + 1, groups)
  ELSE [matched |-> FALSE]

Match(pattern, str) == MatchFrom(pattern, 1, str, 1, <<>>)

\* cmp of two dicts in python 2: the shorter is smaller; of two of one
\* length, the smallest key on which each differs from the other decides,
\* then the values under it
MinKey(keys) == CHOOSE k \in keys : \A o \in keys : k = o \/ StrLess(k, o)
DiffKeys(a, b) == {k \in DOMAIN a : k \notin DOMAIN b \/ a[k] # b[k]}
DiffLess(a, b, ak, bk) == IF ak # bk THEN StrLess(ak, bk) ELSE StrLess(a[ak], b[bk])
DictLess(a, b) ==
  IF Cardinality(DOMAIN a) # Cardinality(DOMAIN b)
  THEN Cardinality(DOMAIN a) < Cardinality(DOMAIN b)
  ELSE IF DiffKeys(a, b) = {} THEN FALSE
  ELSE DiffLess(a, b, MinKey(DiffKeys(a, b)), MinKey(DiffKeys(b, a)))

\* matched_results.sort()
RECURSIVE DictInsert(_, _)
DictInsert(sorted, x) ==
  IF sorted = <<>> THEN <<x>>
  ELSE IF DictLess(x, sorted[1]) THEN <<x>> \o sorted
  ELSE <<sorted[1]>> \o DictInsert(Tail(sorted), x)

RECURSIVE DictSort(_)
DictSort(list) == IF list = <<>> THEN <<>>
                  ELSE DictInsert(DictSort(SubSeq(list, 1, Len(list) - 1)), list[Len(list)])

\* the loop of parse over the parsers; Collect is the body after the match
RECURSIVE ParseFrom(_, _, _, _)
RECURSIVE Collect(_, _, _, _, _)
Collect(parsers, index, path, matched_results, m) ==
  IF m.matched /\ m.groupdict # <<>>
     /\ \A k \in 1..Len(matched_results) : matched_results[k] # m.groupdict
  THEN ParseFrom(parsers, index + 1, path, Append(matched_results, m.groupdict))
  ELSE ParseFrom(parsers, index + 1, path, matched_results)

ParseFrom(parsers, index, path, matched_results) ==
  IF index > Len(parsers) THEN [raised |-> FALSE, matched |-> matched_results]
  ELSE IF ~Compiles(parsers[index]) THEN [raised |-> TRUE]
  ELSE Collect(parsers, index, path, matched_results, Match(parsers[index], path))

\* parse once the loop is over: sort() and reverse()
ParseSorted(reg, p) ==
  IF p.raised THEN [raised |-> "re.error", reg |-> reg]
  ELSE [raised |-> "none", reg |-> reg, parsed |-> Reverse(DictSort(p.matched))]

\* parse once the template is resolved
ParseResolved(r, path) ==
  IF r.raised THEN [raised |-> "KeyError", reg |-> r.reg]
  ELSE ParseSorted(r.reg, ParseFrom(ToParser(Resolve(r.built)), 1, path, <<>>))

\* parse(path, name)
ParseCall(reg, path, name) == ParseResolved(ResolveTemplateCall(reg, name), path)

(***************************************************************************)
(* FileSystemManager: build.                                               *)
(***************************************************************************)
\* os.path.join(current_path, result['path'])
PathJoin(root, path) == root \o Sep \o path

\* what the filesystem answers: "ok" (every call succeeds), "exists" (the
\* folders are there already: makedirs fails), "denied" (every call fails)
FsAnswers == {"ok", "exists", "denied"}

\* the first loop of build: one makedirs or one write per result, each in a
\* try block that swallows the failure
CreateCalls(path_results, root, fs) ==
  [i \in 1..Len(path_results) |->
     IF path_results[i].folder
     THEN [call |-> "makedirs", path |-> PathJoin(root, path_results[i].path),
           failed |-> fs # "ok"]
     ELSE [call |-> "write", path |-> PathJoin(root, path_results[i].path),
           content |-> path_results[i].content, failed |-> fs = "denied"]]

\* the call os.chmod(path, permission) of one result
ChmodCall(result, root, fs) ==
  [call |-> "chmod", path |-> PathJoin(root, result.path),
   permission |-> result.permission, failed |-> fs = "denied"]

\* the second loop of build, over reversed(path_results): oct(permission)
\* is evaluated outside the try block and takes a number, os.chmod is
\* inside it
RECURSIVE ChmodCalls(_, _, _, _)
ChmodAnd(call, rest) == [raised |-> rest.raised, calls |-> <<call>> \o rest.calls]

ChmodCalls(reversed, index, root, fs) ==
  IF index > Len(reversed) THEN [raised |-> FALSE, calls |-> <<>>]
  ELSE IF ~IsInt(reversed[index].permission) THEN [raised |-> TRUE, calls |-> <<>>]
  ELSE ChmodAnd(ChmodCall(reversed[index], root, fs),
                ChmodCalls(reversed, index + 1, root, fs))

\* build once both loops are over
BuildDone(reg, path_results, created, chmods) ==
  [raised |-> IF chmods.raised THEN "TypeError" ELSE "none",
   reg |-> reg,
   path_results |-> path_results,
   calls |-> created \o chmods.calls]

\* build from path_results on
BuildPaths(reg, path_results, root, fs) ==
  BuildDone(reg, path_results, CreateCalls(path_results, root, fs),
            ChmodCalls(Reverse(path_results), 1, root, fs))

\* build once the template is resolved
BuildResolved(r, data, root, fs) ==
  IF r.raised
  THEN [raised |-> "KeyError", reg |-> r.reg, calls |-> <<>>, path_results |-> <<>>]
  ELSE BuildPaths(r.reg, ToPath(Resolve(r.built), data).result, root, fs)

\* build(name, data, root)
BuildCall(reg, name, data, root, fs) ==
  BuildResolved(ResolveTemplateCall(reg, name), data, root, fs)

(***************************************************************************)
(* The state.                                                              *)
(***************************************************************************)
VARIABLES
  disk,       \* the template source directory
  register,   \* TemplateManager._register
  initial,    \* the register as __init__ left it
  rescans,    \* register_templates calls made since __init__
  op,         \* the last operation called
  args,       \* its arguments
  err,        \* the exception it raised, "none" when it returned
  built,      \* what resolve_template returned
  previous,   \* the name and the tree of the resolve_template call before
  expanded,   \* the tree as _resolve_template left it, before the sort
  resolved,   \* what resolve returned
  paths,      \* what _to_path returned
  found,      \* what find_path returned
  parsed,     \* what parse returned
  calls       \* the filesystem calls build made, in order

vars == <<disk, register, initial, rescans, op, args, err, built, previous,
          expanded, resolved, paths, found, parsed, calls>>

\* the caller holds no result: it is free to make any call
Idle == op \in {"__init__", "idle"}

\* no result
Nothing == <<>>

\* the caller holds no earlier tree
NoPrevious == [held |-> FALSE]

Init ==
  /\ disk \in Disks
  /\ \E ord \in Orders : register = Construct(disk, ord)
  /\ initial = register
  /\ rescans = 0
  /\ op = "__init__"
  /\ args = Nothing
  /\ err = "none"
  /\ built = Nothing
  /\ previous = NoPrevious
  /\ expanded = Nothing
  /\ resolved = Nothing
  /\ paths = Nothing
  /\ found = Nothing
  /\ parsed = Nothing
  /\ calls = Nothing

\* what every call leaves of the results of the calls before it
Forget(kept) ==
  /\ "built" \in kept \/ built' = Nothing
  /\ "previous" \in kept \/ previous' = NoPrevious
  /\ "expanded" \in kept \/ expanded' = Nothing
  /\ "resolved" \in kept \/ resolved' = Nothing
  /\ "paths" \in kept \/ paths' = Nothing
  /\ "found" \in kept \/ found' = Nothing
  /\ "parsed" \in kept \/ parsed' = Nothing
  /\ "calls" \in kept \/ calls' = Nothing

\* manager.register_templates(): an explicit re-scan of the template source
RegisterTemplates ==
  /\ Idle
  /\ rescans < MaxRescans
  /\ \E ord \in Orders : register' = RegisterTemplatesInto(register, disk, ord)
  /\ rescans' = rescans + 1
  /\ op' = "idle"
  /\ args' = Nothing
  /\ err' = "none"
  /\ Forget({})
  /\ UNCHANGED <<disk, initial>>

\* the names resolve_template is asked for: every name of the source, and
\* one that no source has
NoTemplate == <<"n","o">>
TemplateNames == {disk.entries[i].name : i \in 1..Len(disk.entries)} \cup {NoTemplate}

\* resolve_template returns r
ResolveTemplateReturns(r, name) ==
  /\ register' = r.reg
  /\ op' = "resolve_template"
  /\ args' = [name |-> name]
  /\ err' = IF r.raised THEN "KeyError" ELSE "none"
  /\ built' = IF r.raised THEN Nothing ELSE r.built
  /\ expanded' = IF r.raised THEN Nothing ELSE r.expanded
  /\ previous' = IF op = "resolve_template"
                 THEN [held |-> TRUE, name |-> args.name, built |-> built]
                 ELSE NoPrevious
  /\ Forget({"built", "expanded", "previous"})
  /\ UNCHANGED <<disk, initial, rescans>>

\* manager.resolve_template(name); the caller may hold the tree of one
\* earlier resolve_template call
ResolveTemplate ==
  /\ Idle \/ (op = "resolve_template" /\ err = "none" /\ ~previous.held)
  /\ \E name \in TemplateNames :
       ResolveTemplateReturns(ResolveTemplateCall(register, name), name)

\* manager.resolve(schema), for the schema resolve_template just returned
ResolveSchema ==
  /\ op = "resolve_template" /\ err = "none"
  /\ resolved' = Resolve(built)
  /\ op' = "resolve"
  /\ err' = "none"
  /\ Forget({"built", "expanded", "previous", "resolved"})
  /\ UNCHANGED <<disk, register, initial, rescans, args, built, previous, expanded>>

\* the data mappings build and _to_path are given
Datas == { <<>>,
           sShow :> sRex,
           sV :> <<"x">>,
           (sShow :> sRex) @@ (sShot :> <<"s","1">>) @@ (sV :> <<"x">>)
             @@ (sDepartment :> <<"f","x">>) }

\* _to_path returns r
ToPathReturns(r, data) ==
  /\ paths' = r.result
  /\ resolved' = r.entries
  /\ args' = [name |-> args.name, data |-> data, entries |-> resolved]
  /\ op' = "_to_path"
  /\ err' = "none"
  /\ Forget({"built", "expanded", "previous", "resolved", "paths"})
  /\ UNCHANGED <<disk, register, initial, rescans, built, previous, expanded>>

\* fs._to_path(paths, data), for the entries resolve just returned
ToPathEntries ==
  /\ op = "resolve"
  /\ \E data \in Datas : ToPathReturns(ToPath(resolved, data), data)

\* the filter tokens find_path is given
StartTokens == {None, sRoot, nShowV, <<"p">>}
EndTokens == {None, sLeaf, <<"f","o","o">>}
ContainsLists == { <<>>, << <<"{","s","h","o","t","}">> >>, << nVV, <<"e">> >>, << <<>> >> }

\* find_path returns r
FindPathReturns(r, name, startwith, contains, endswith) ==
  /\ register' = r.reg
  /\ op' = "find_path"
  /\ args' = [name |-> name, startwith |-> startwith,
              contains |-> contains, endswith |-> endswith]
  /\ err' = r.raised
  /\ found' = IF r.raised = "none" THEN r.found ELSE Nothing
  /\ Forget({"found"})
  /\ UNCHANGED <<disk, initial, rescans>>

\* manager.find_path(startwith, contains, endswith, template_name)
FindPath ==
  /\ Idle
  /\ \E name \in TemplateNames, startwith \in StartTokens,
        endswith \in EndTokens, contains \in ContainsLists :
       FindPathReturns(FindPathCall(register, startwith, contains, endswith, name),
                       name, startwith, contains, endswith)

\* the folder build writes under
BuildRoot == <<"o","u","t">>

\* build returns r
BuildReturns(r, name, data, fs) ==
  /\ register' = r.reg
  /\ op' = "build"
  /\ args' = [name |-> name, data |-> data, root |-> BuildRoot, fs |-> fs]
  /\ err' = r.raised
  /\ calls' = r.calls
  /\ paths' = r.path_results
  /\ Forget({"calls", "paths"})
  /\ UNCHANGED <<disk, initial, rescans>>

\* fs.build(name, data, root)
Build ==
  /\ Idle
  /\ \E name \in TemplateNames, data \in Datas, fs \in FsAnswers :
       BuildReturns(BuildCall(register, name, data, BuildRoot, fs), name, data, fs)

\* the paths parse is given: every path _to_path makes of the template, and
\* one path no template makes
ForeignPath == <<"n","o","/","x">>
PathSet(res) == {res[i].path : i \in 1..Len(res)}
BuiltPathsOf(r) ==
  IF r.raised THEN {}
  ELSE UNION { PathSet(ToPath(Resolve(r.built), data).result) : data \in Datas }
BuiltPaths(reg, name) == BuiltPathsOf(ResolveTemplateCall(reg, name))

\* parse returns r
ParseReturns(r, name, path) ==
  /\ register' = r.reg
  /\ op' = "parse"
  /\ args' = [name |-> name, path |-> path]
  /\ err' = r.raised
  /\ parsed' = IF r.raised = "none" THEN r.parsed ELSE Nothing
  /\ Forget({"parsed"})
  /\ UNCHANGED <<disk, initial, rescans>>

\* fs.parse(path, name)
Parse ==
  /\ Idle
  /\ \E name \in TemplateNames :
       \E path \in BuiltPaths(register, name) \cup {ForeignPath} :
         ParseReturns(ParseCall(register, path, name), name, path)

\* the caller lets go of the results it holds
Return ==
  /\ ~Idle
  /\ op' = "idle"
  /\ args' = Nothing
  /\ err' = "none"
  /\ Forget({})
  /\ UNCHANGED <<disk, register, initial, rescans>>

Next ==
  \/ Return
  \/ RegisterTemplates
  \/ ResolveTemplate
  \/ ResolveSchema
  \/ ToPathEntries
  \/ FindPath
  \/ Build
  \/ Parse

Spec == Init /\ [][Next]_vars

(***************************************************************************)
(* The properties.                                                         *)
(***************************************************************************)
\* the call returned (no exception)
Returned(name) == op = name /\ err = "none"

\* a tree is held: resolve_template returned it, and resolve or _to_path may
\* have followed
TreeHeld == op \in {"resolve_template", "resolve", "_to_path"} /\ err = "none"

\* the children of a node
Kids(node) == Get(node, "children", <<>>)

\* no node of the tree has the reference marker in its name
RECURSIVE NoRefNames(_)
NoRefNames(node) ==
  /\ ~HasChar(node.name, RefInd)
  /\ \A i \in 1..Len(Kids(node)) : NoRefNames(Kids(node)[i])

\* the names of a list of nodes
NameSet(nodes) == {nodes[i].name : i \in 1..Len(nodes)}

\* every node below this one whose name has the reference marker is a
\* folder that holds the children of the registered fragment of that name
RECURSIVE AllExpanded(_, _)
AllExpanded(reg, node) ==
  \A i \in 1..Len(Kids(node)) :
    /\ HasChar(Kids(node)[i].name, RefInd) =>
         /\ IndexInRegister(reg, Kids(node)[i].name) # 0
         /\ Kids(node)[i].folder
         /\ NameSet(reg[IndexInRegister(reg, Kids(node)[i].name)].children)
              \subseteq NameSet(Kids(Kids(node)[i]))
    /\ AllExpanded(reg, Kids(node)[i])

\* C1 as claimed: the tree resolve_template returns has no node, the root
\* and the substituted nodes included, whose name carries '@'.
C1_NoMarkerInTree == Returned("resolve_template") => NoRefNames(built)

\* C1, amended: the tree resolve_template returns holds no placeholder that
\* was left as it was (every node below the root whose name carries '@' is
\* a folder holding the children of the registered fragment of that name),
\* and no segment of a path entry that resolve makes of the tree carries '@'.
C1_NoMarkerAfterResolve ==
  /\ TreeHeld => AllExpanded(register, built)
  /\ Returned("resolve") =>
       \A i \in 1..Len(resolved) : \A j \in 1..Len(resolved[i].path) :
         ~HasChar(resolved[i].path[j], RefInd)

\* C1's case: a tree whose root and one more node carry '@' was flattened
C1_Witness ==
  /\ Returned("resolve")
  /\ HasChar(built.name, RefInd)
  /\ \E i \in 1..Len(Kids(built)) :
       HasChar(Kids(built)[i].name, RefInd) /\ Kids(Kids(built)[i]) # <<>>

\* the children of every node are in canonical order: folders before files,
\* and by sanitized lower-cased name within a kind
RECURSIVE Canonical(_)
Canonical(node) ==
  /\ \A i, j \in 1..Len(Kids(node)) :
       i < j => ~KeyLess(ChildKey(Kids(node)[j]), ChildKey(Kids(node)[i]))
  /\ \A i \in 1..Len(Kids(node)) : Canonical(Kids(node)[i])

\* what resolve makes of the template name when listdir answers in order ord
EntriesUnder(ord, name) == Resolve(ResolveTemplateCall(Construct(disk, ord), name).built)

\* C2 as claimed: whatever the order listdir answers in, resolve_template
\* followed by resolve gives the same sequence of path entries (siblings
\* with equal sort keys included), and the tree is in canonical order at
\* every level.
C2_DeterministicOrdering ==
  Returned("resolve") =>
    /\ Canonical(built)
    /\ \A ord \in Orders : EntriesUnder(ord, args.name) = resolved

\* the variables of an entry of resolve: the names in its marked segments
VarsOf(entry) ==
  {SplitPlus1(entry.path[j]) : j \in {k \in 1..Len(entry.path) : HasChar(entry.path[k], VarInd)}}

\* what _to_path makes of this one entry
Materialized(entry, data) == ToPath(<<entry>>, data).result

\* parse answered a mapping that gives every variable of entry its value
ParsedBack(entry, data) ==
  /\ err = "none"
  /\ \E k \in 1..Len(parsed) :
       \A v \in VarsOf(entry) : v \in DOMAIN parsed[k] /\ parsed[k][v] = data[v]

\* the entries resolve makes of the template of the last call
EntriesOfCall == Resolve(ResolveTemplateCall(register, args.name).built)

\* C3 as claimed: a path that _to_path made of an entry with a variable
\* segment, given to parse with the same template name, comes back with a
\* mapping that gives each variable of the entry the value data gave it.
C3_RoundTrip ==
  (op = "parse" /\ err # "KeyError") =>
    \A data \in Datas : \A i \in 1..Len(EntriesOfCall) :
      ( /\ VarsOf(EntriesOfCall[i]) # {}
        /\ Materialized(EntriesOfCall[i], data) # <<>>
        /\ Materialized(EntriesOfCall[i], data)[1].path = args.path )
      => ParsedBack(EntriesOfCall[i], data)

\* C4 as claimed: the list _to_path returns never holds two entries with
\* the same path string.
C4_NoDuplicatePaths ==
  (op \in {"_to_path", "build"} /\ err # "KeyError") =>
    \A i, j \in 1..Len(paths) : i < j => paths[i].path # paths[j].path

\* C5 as claimed: build tries the create or write step for every entry in
\* order, then the permission step for every entry in reverse order, and
\* no failing path stops it.
C5_CreateThenChmodReversed ==
  (op = "build" /\ err # "KeyError") =>
    /\ err = "none"
    /\ Len(calls) = 2 * Len(paths)
    /\ \A i \in 1..Len(paths) :
         /\ calls[i].call = (IF paths[i].folder THEN "makedirs" ELSE "write")
         /\ calls[i].path = PathJoin(args.root, paths[i].path)
         /\ calls[Len(paths) + i].call = "chmod"
         /\ calls[Len(paths) + i].path =
              PathJoin(args.root, paths[Len(paths) + 1 - i].path)

\* resolve_template returned twice in a row, for the same name
Repeated ==
  /\ Returned("resolve_template")
  /\ previous.held
  /\ previous.name = args.name

\* C6: the calls other than register_templates (resolve_template, resolve,
\* _to_path, find_path, build, parse, the ones that raise for a missing
\* template included) leave the register as it was, so that without a
\* re-scan it is what __init__ left; and resolve_template of the same name
\* twice in a row returns equal trees.
C6_RegisterIsolation ==
  /\ [](rescans = 0 => register = initial)
  /\ [](Repeated => built = previous.built)
  /\ [][rescans' = rescans => register' = register]_vars

\* C6's case: a template with a placeholder that has local children was
\* resolved twice in a row
C6_Witness ==
  /\ Repeated
  /\ \E i \in 1..Len(Kids(expanded)) :
       /\ HasChar(Kids(expanded)[i].name, RefInd)
       /\ Len(Kids(Kids(expanded)[i])) >= 2

\* C7 as claimed: after construction and after any number of
\* register_templates calls, no two entries of the register have the same
\* name and the register is sorted by sanitized lower-cased name.
C7_UniqueSortedRegister ==
  /\ \A i, j \in 1..Len(register) : i < j => register[i].name # register[j].name
  /\ \A i, j \in 1..Len(register) :
       i < j => ~StrLess(StrLower(SortSanitize(register[j].name)),
                         StrLower(SortSanitize(register[i].name)))

\* the merge as C8 states it: each child stays at its index; a child whose
\* name carries '@' becomes the registered fragment of that name, with the
\* fragment's children followed by the child's own; the children of every
\* child, merged or not, are treated the same way
RECURSIVE MergedKids(_, _)
MergedNode(reg, node, kids) ==
  IF Len(kids) = 0 THEN node ELSE [node EXCEPT !.children = MergedKids(reg, kids)]

MergedKids(reg, kids) ==
  [i \in 1..Len(kids) |->
     IF HasChar(kids[i].name, RefInd)
     THEN MergedNode(reg, [reg[IndexInRegister(reg, kids[i].name)]
                             EXCEPT !.children = @ \o Kids(kids[i])],
                     reg[IndexInRegister(reg, kids[i].name)].children \o Kids(kids[i]))
     ELSE MergedNode(reg, kids[i], Kids(kids[i]))]

\* the registered item resolve_template was asked for
Asked == register[IndexInRegister(register, args.name)]

\* C8: the tree _resolve_template leaves (before the sort) is the registered
\* item with every placeholder replaced, at its own index, by the referenced
\* fragment whose children are the fragment's own followed by the
\* placeholder's local ones, the references inside both expanded in turn,
\* and the other siblings where they were.
C8_MergeSemantics ==
  Returned("resolve_template") =>
    expanded = MergedNode(register, Asked, Asked.children)

\* a placeholder with local children, for a fragment with children
LocalAndOwn(reg, kid) ==
  /\ HasChar(kid.name, RefInd)
  /\ Kids(kid) # <<>>
  /\ IndexInRegister(reg, kid.name) # 0
  /\ reg[IndexInRegister(reg, kid.name)].children # <<>>

\* C8's case: the template asked for has a placeholder with local children,
\* not at the first index, and the fragment has children of its own
C8_Witness ==
  /\ Returned("resolve_template")
  /\ \E i \in 2..Len(Asked.children) : LocalAndOwn(register, Asked.children[i])

\* the variable segments of an entry all name keys of data
AllKeys(entry, data) == VarsOf(entry) \subseteq DOMAIN data

\* the path string of an entry: the segments joined, a variable segment
\* replaced by the value of its name
Substituted(entry, data) ==
  Join([j \in 1..Len(entry.path) |->
          IF HasChar(entry.path[j], VarInd)
          THEN data[SplitPlus1(entry.path[j])]
          ELSE entry.path[j]], Sep)

\* the entries that have all their keys, in their order, each with its path
\* string
RECURSIVE KeptOf(_, _)
KeptOf(entries, data) ==
  IF entries = <<>> THEN <<>>
  ELSE (IF AllKeys(entries[1], data)
        THEN <<[entries[1] EXCEPT !.path = Substituted(entries[1], data)]>>
        ELSE <<>>) \o KeptOf(Tail(entries), data)

\* C9: _to_path returns (no exception), and what it returns is the entries
\* whose variable segments all name keys of data, in their order, each with
\* its path string: the entries with a variable that data lacks are left
\* out, and no other.
C9_MissingKeySkip ==
  (op = "_to_path") =>
    /\ err = "none"
    /\ paths = KeptOf(args.entries, args.data)

\* C9's case: an entry that lacks a key was left out, and entries before it
\* and after it were kept, one of them with a variable
C9_Witness ==
  /\ op = "_to_path"
  /\ \E i, j, k \in 1..Len(args.entries) :
       /\ i < j /\ j < k
       /\ AllKeys(args.entries[i], args.data)
       /\ ~AllKeys(args.entries[j], args.data)
       /\ AllKeys(args.entries[k], args.data)
       /\ VarsOf(args.entries[k]) # {}

\* a filter token is given: it is not None and not empty
Given(token) == FindSanitize(token) \notin {None, <<>>}

\* the flattened paths of the template find_path was asked for
Flattened == PathsOf(Resolve(ResolveTemplateCall(register, args.name).built))

\* the path satisfies the criteria of the call, the tokens sanitized
Satisfies(path) ==
  /\ Given(args.startwith) => FindSanitize(path[1]) = FindSanitize(args.startwith)
  /\ Given(args.endswith) => FindSanitize(path[Len(path)]) = FindSanitize(args.endswith)
  /\ \A k \in 1..Len(args.contains) :
       \E j \in 1..Len(path) : IsSubstring(FindSanitize(args.contains[k]), path[j])

\* the call of the claim's example: startwith='root', endswith='leaf', on
\* the flattened paths [root], [root, a], [root, a, leaf], [root, b], ...
RootLeafCall ==
  /\ op = "find_path"
  /\ args.name = sRoot /\ args.startwith = sRoot /\ args.endswith = sLeaf
  /\ args.contains = <<>>

\* the indices of the paths that satisfy the criteria of the call
SatisfiedIn(flat) == {i \in 1..Len(flat) : Satisfies(flat[i])}

\* the earliest of a non-empty set of indices
Earliest(indices) == CHOOSE i \in indices : \A j \in indices : i <= j

\* what C10 says find_path returns, for the flattened paths flat of which
\* those at the indices sat satisfy the criteria
FirstOf(flat, sat) ==
  /\ (found = NoPath) <=> (sat = {})
  /\ sat # {} => found = ThePath(flat[Earliest(sat)])

RECURSIVE PositionsOf(_)
PositionsOf(node) ==
  {<<>>} \cup UNION { { <<i>> \o p : p \in PositionsOf(Kids(node)[i]) }
                      : i \in 1..Len(Kids(node)) }

\* the node at a position
RECURSIVE NodeAt(_, _)
NodeAt(node, pos) ==
  IF pos = <<>> THEN node ELSE NodeAt(Kids(node)[pos[1]], Tail(pos))

\* the names on the way down to a position, the root's first, each without
\* the reference marker
RECURSIVE NamesTo(_, _)
NamesTo(node, pos) ==
  <<SelectSeq(node.name, LAMBDA c : c # "@")>>
  \o (IF pos = <<>> THEN <<>> ELSE NamesTo(Kids(node)[pos[1]], Tail(pos)))

\* pre-order of positions: a node before its descendants, and the subtree
\* of a child before the subtrees of its later siblings
RECURSIVE Before(_, _)
Before(p, q) ==
  IF p = <<>> THEN q # <<>>
  ELSE IF q = <<>> THEN FALSE
  ELSE IF p[1] # q[1] THEN p[1] < q[1]
  ELSE Before(Tail(p), Tail(q))

\* the place of a position in the pre-order walk of the positions
PlaceOf(pos, positions) == 1 + Cardinality({q \in positions : Before(q, pos)})

\* the entry C11 gives a node
EntryOf(tree, pos, node) ==
  [path |-> NamesTo(tree, pos),
   permission |-> node.permission,
   folder |-> node.folder,
   content |-> Get(node, "content", <<>>)]

\* entries is the pre-order walk of the tree, whose nodes are at positions
PreOrderOf(entries, tree, positions) ==
  /\ Len(entries) = Cardinality(positions)
  /\ \A pos \in positions :
       entries[PlaceOf(pos, positions)] = EntryOf(tree, pos, NodeAt(tree, pos))

\* C11: resolve(schema) returns one path entry per node of the tree, in
\* pre-order (the root first, every node before its descendants and before
\* the subtrees of its later siblings, siblings in children order); the
\* path of an entry is the names from the root down to its node, '@'
\* removed and '+' kept, and the entry carries the node's permission,
\* folder flag and content.
C11_PreOrderFlatten ==
  Returned("resolve") => PreOrderOf(resolved, built, PositionsOf(built))

\* C11's case: resolve flattened a tree whose root carries '@', in which a
\* child that carries both markers and has children of its own is followed
\* by a later sibling, a file with content
C11_Witness ==
  /\ Returned("resolve")
  /\ HasChar(built.name, RefInd)
  /\ \E i, j \in 1..Len(Kids(built)) :
       /\ i < j
       /\ HasChar(Kids(built)[i].name, RefInd)
       /\ HasChar(Kids(built)[i].name, VarInd)
       /\ Kids(Kids(built)[i]) # <<>>
       /\ ~Kids(built)[j].folder
       /\ Get(Kids(built)[j], "content", <<>>) # <<>>

====
